---- MODULE Spec2Model ----
(***************************************************************************)
(* Object pool (utils/objectPool.js) and particle emitter                  *)
(* (components/particleSystem.js) of XernEngine.                           *)
(*                                                                         *)
(* Objects live in `heap`; an object's identity is its index in `heap`,    *)
(* so two references are the same JavaScript object iff the indices are    *)
(* equal.  The pool's `active` Set is kept as a duplicate-free sequence in *)
(* insertion order, which is the order Set.prototype.forEach visits.       *)
(*                                                                         *)
(* Times are milliseconds.  emissionAccumulator holds the JavaScript       *)
(* field multiplied by emissionRate, so that the comparison with           *)
(* 1000 / emissionRate is exact for rates that do not divide 1000.         *)
(* A particle's vx, vy and rotation hold the JavaScript fields multiplied *)
(* by 1000 and its x and y hold them multiplied by 1000000, so that        *)
(* v += a * (deltaTime / 1000) and x += v * (deltaTime / 1000) are exact.  *)
(***************************************************************************)
EXTENDS Integers, Sequences, FiniteSets, TLC

VARIABLES
    \* ObjectPool
    heap,                \* every object a factory has produced, by identity
    pool,                \* this.pool: the free list
    active,              \* this.active: the Set of lent objects
    kind,                \* which factory/reset closures the pool was built with
    initialSize,         \* the constructor's initialSize argument
    \* ParticleEmitter
    cfg,                 \* the config object given to the constructor
    maxParticles, emissionRate, burst, duration, life,
    emissionAccumulator, elapsed, emitterActive, particles,
    \* several emitters of one host (TwoSpec): all objects are in heap
    emitters,            \* the ParticleEmitter objects, each with its pool's identity
    pools,               \* the ObjectPool objects the emitters' constructors created
    \* observers of the calls made (not program state)
    last,                \* the last operation and its argument / result
    factoryCalls,        \* invocations of this.factory so far
    emptyAcquires,       \* acquire() calls that found the free list empty
    resetCalls,          \* invocations of this.reset by the last operation
    held,                \* results of acquire() not yet given back, in order
    cleared,             \* clear() has been called
    released,            \* release() or releaseAll() has been called
    dropped,             \* the instances clear() calls have dropped
    tickSum,             \* sum of dt over update() since the last start()
    updateEmits,         \* emit() invocations by update() since the last start()
    hostEmits,           \* emit() calls by the host since the last start()
    starts,              \* start() calls so far
    drawn                \* the particles the last draw() rendered

poolVars == <<heap, pool, active, kind, initialSize>>
configVars == <<cfg, maxParticles, emissionRate, burst, duration, life>>
emitterVars == <<emissionAccumulator, elapsed, emitterActive, particles>>
poolObs == <<factoryCalls, emptyAcquires, resetCalls, held, cleared, released, dropped>>
emitterObs == <<tickSum, updateEmits, hostEmits, starts, drawn>>
hostVars == <<emitters, pools>>
vars == <<poolVars, configVars, emitterVars, hostVars, poolObs, emitterObs, last>>

(***************************************************************************)
(* Bounds of the model.                                                    *)
(***************************************************************************)
\* The standalone pool stops creating instances at this many.
MaxInstances == 3
\* Largest initialSize the standalone pool is constructed with.
MaxInitialSize == 2
\* update() is not called once the time since start() would pass this.
MaxTime == 300
\* In RateSpec, update() is not called once the time since start() would
\* pass this.
MaxRateTime == 1000
\* start() is called at most this often.
MaxStarts == 2
\* The host calls emit() itself at most this often between two start() calls.
MaxHostEmits == 1

Min(a, b) == IF a <= b THEN a ELSE b
Max(a, b) == IF a > b THEN a ELSE b
Range(s) == {s[i] : i \in 1..Len(s)}
NoDup(s) == \A i, j \in 1..Len(s) : s[i] = s[j] => i = j
SeqWithout(s, x) == SelectSeq(s, LAMBDA y : y # x)

(***************************************************************************)
(* Particle                                                                *)
(***************************************************************************)
\* Particle.reset(): the inert state.
ParticleReset ==
    [x |-> 0, y |-> 0, vx |-> 0, vy |-> 0, ax |-> 0, ay |-> 0,
     life |-> 0, maxLife |-> 1000, rotation |-> 0, rotationSpeed |-> 0,
     active |-> FALSE]

\* Particle.update() that tests life > maxLife.
ParticleUpdateStrict(p, deltaTime) ==
    IF ~p.active THEN p
    ELSE IF p.life + deltaTime > p.maxLife
         THEN [p EXCEPT !.life = p.life + deltaTime, !.active = FALSE]
         ELSE LET vx == p.vx + p.ax * deltaTime
                  vy == p.vy + p.ay * deltaTime
              IN [p EXCEPT !.life = p.life + deltaTime,
                           !.vx = vx,
                           !.vy = vy,
                           !.x = p.x + vx * deltaTime,
                           !.y = p.y + vy * deltaTime,
                           !.rotation = p.rotation + p.rotationSpeed * deltaTime]

\* Particle.update() that moves the particle with the velocity it had
\* before the call and then accelerates it.
ParticleUpdatePositionFirst(p, deltaTime) ==
    IF ~p.active THEN p
    ELSE IF p.life + deltaTime >= p.maxLife
         THEN [p EXCEPT !.life = p.life + deltaTime, !.active = FALSE]
         ELSE [p EXCEPT !.life = p.life + deltaTime,
                        !.x = p.x + p.vx * deltaTime,
                        !.y = p.y + p.vy * deltaTime,
                        !.vx = p.vx + p.ax * deltaTime,
                        !.vy = p.vy + p.ay * deltaTime,
                        !.rotation = p.rotation + p.rotationSpeed * deltaTime]

\* Particle.update(deltaTime) applied to the particle record p.
ParticleUpdate(p, deltaTime) ==
    IF ~p.active THEN p
    ELSE IF p.life + deltaTime >= p.maxLife
         THEN [p EXCEPT !.life = p.life + deltaTime, !.active = FALSE]
         ELSE LET vx == p.vx + p.ax * deltaTime
                  vy == p.vy + p.ay * deltaTime
              IN [p EXCEPT !.life = p.life + deltaTime,
                           !.vx = vx,
                           !.vy = vy,
                           !.x = p.x + vx * deltaTime,
                           !.y = p.y + vy * deltaTime,
                           !.rotation = p.rotation + p.rotationSpeed * deltaTime]

(***************************************************************************)
(* ObjectPool.  The operators take and return a record S of the mutable    *)
(* fields; S.ret is the value the call returns.                            *)
(***************************************************************************)
\* this.factory(): `plain` is the documented { value: 0 } factory,
\* `particle` is () => new Particle().
factory(k) == IF k = "particle" THEN ParticleReset ELSE [value |-> 0]

\* this.reset(obj) on the object record o.
\* A reset function whose Particle.reset() leaves rotation as it is.
resetKeepsRotation(k, o) ==
    IF k = "particle"
    THEN [ParticleReset EXCEPT !.rotation = o.rotation]
    ELSE [o EXCEPT !.value = 0]

reset(k, o) == IF k = "particle" THEN ParticleReset ELSE [o EXCEPT !.value = 0]

\* Set.prototype.add
SetAdd(s, x) == IF x \in Range(s) THEN s ELSE Append(s, x)

\* The constructor's loop: initialSize factory calls pushed on the free list.
PoolConstructed(k, n) ==
    [heap |-> [i \in 1..n |-> factory(k)],
     pool |-> [i \in 1..n |-> i],
     active |-> <<>>,
     factoryCalls |-> n]

\* acquire() that reads the top of the free list without popping it.
acquireNoPop(S) ==
    IF Len(S.pool) > 0
    THEN LET obj == S.pool[Len(S.pool)]
         IN [S EXCEPT !.active = SetAdd(S.active, obj), !.ret = obj]
    ELSE LET obj == Len(S.heap) + 1
         IN [S EXCEPT !.heap = Append(S.heap, factory(kind)),
                      !.factoryCalls = S.factoryCalls + 1,
                      !.active = SetAdd(S.active, obj),
                      !.ret = obj]

\* acquire() that returns a fresh instance without this.active.add(obj).
acquireFreshUntracked(S) ==
    IF Len(S.pool) > 0
    THEN LET obj == S.pool[Len(S.pool)]
         IN [S EXCEPT !.pool = SubSeq(S.pool, 1, Len(S.pool) - 1),
                      !.active = SetAdd(S.active, obj),
                      !.ret = obj]
    ELSE LET obj == Len(S.heap) + 1
         IN [S EXCEPT !.heap = Append(S.heap, factory(kind)),
                      !.factoryCalls = S.factoryCalls + 1,
                      !.ret = obj]

acquire(S) ==
    IF Len(S.pool) > 0
    THEN LET obj == S.pool[Len(S.pool)]
         IN [S EXCEPT !.pool = SubSeq(S.pool, 1, Len(S.pool) - 1),
                      !.active = SetAdd(S.active, obj),
                      !.ret = obj]
    ELSE LET obj == Len(S.heap) + 1
         IN [S EXCEPT !.heap = Append(S.heap, factory(kind)),
                      !.factoryCalls = S.factoryCalls + 1,
                      !.active = SetAdd(S.active, obj),
                      !.ret = obj]

\* release() that forgets this.active.delete(obj).
releaseNoDelete(S, obj) ==
    IF obj \in Range(S.active)
    THEN [S EXCEPT !.heap[obj] = reset(kind, @),
                   !.resetCalls = S.resetCalls + 1,
                   !.pool = Append(S.pool, obj)]
    ELSE S

\* release() without the this.active.has(obj) test.
releaseUnguarded(S, obj) ==
    [S EXCEPT !.active = SeqWithout(S.active, obj),
              !.heap = [i \in DOMAIN S.heap |->
                           IF i = obj THEN reset(kind, S.heap[i]) ELSE S.heap[i]],
              !.resetCalls = S.resetCalls + 1,
              !.pool = Append(S.pool, obj)]

\* release() without this.pool.push(obj).
releaseNoPush(S, obj) ==
    IF obj \in Range(S.active)
    THEN [S EXCEPT !.active = SeqWithout(S.active, obj),
                   !.heap[obj] = reset(kind, @),
                   !.resetCalls = S.resetCalls + 1]
    ELSE S

\* release() without this.reset(obj).
releaseNoReset(S, obj) ==
    IF obj \in Range(S.active)
    THEN [S EXCEPT !.active = SeqWithout(S.active, obj),
                   !.pool = Append(S.pool, obj)]
    ELSE S

\* obj is any value; only objects of this heap have a state to reset.
release(S, obj) ==
    IF obj \in Range(S.active)
    THEN [S EXCEPT !.active = SeqWithout(S.active, obj),
                   !.heap[obj] = reset(kind, @),
                   !.resetCalls = S.resetCalls + 1,
                   !.pool = Append(S.pool, obj)]
    ELSE S

RECURSIVE releaseEach(_, _)
\* The forEach of releaseAll from the i-th active object on.
releaseEach(S, i) ==
    IF i > Len(S.active) THEN S
    ELSE LET obj == S.active[i]
         IN releaseEach([S EXCEPT !.heap[obj] = reset(kind, @),
                                  !.resetCalls = S.resetCalls + 1,
                                  !.pool = Append(S.pool, obj)], i + 1)

\* releaseAll() that forgets this.active.clear().
releaseAllNoClear(S) == releaseEach(S, 1)

\* releaseAll() that passes over the first active instance.
releaseAllSkipsFirst(S) == [releaseEach(S, 2) EXCEPT !.active = <<>>]

releaseAll(S) == [releaseEach(S, 1) EXCEPT !.active = <<>>]

getStats(S) ==
    [available |-> Len(S.pool),
     active |-> Len(S.active),
     total |-> Len(S.pool) + Len(S.active)]

\* clear() without this.active.clear().
clearKeepsActive(S) == [S EXCEPT !.pool = <<>>]

clear(S) == [S EXCEPT !.pool = <<>>, !.active = <<>>]


(***************************************************************************)
(* The mutable fields as one record, and its write-back.                   *)
(***************************************************************************)
State ==
    [heap |-> heap, pool |-> pool, active |-> active,
     emissionAccumulator |-> emissionAccumulator, elapsed |-> elapsed,
     emitterActive |-> emitterActive, particles |-> particles,
     factoryCalls |-> factoryCalls,
     resetCalls |-> 0,   \* reset invocations of this operation
     emits |-> 0,        \* emit() invocations of this operation
     spawns |-> 0,       \* particles spawned by this operation
     rnd |-> <<>>,       \* the values Math.random() will return
     ret |-> 0]

CommitPool(S) ==
    /\ heap' = S.heap
    /\ pool' = S.pool
    /\ active' = S.active
    /\ factoryCalls' = S.factoryCalls
    /\ resetCalls' = S.resetCalls
    /\ UNCHANGED <<kind, initialSize, hostVars>>

(***************************************************************************)
(* ParticleEmitter.  S.rnd is the stream Math.random() returns from, one   *)
(* element for each emit(); each sample r stands for the value r / 2 of    *)
(* [0, 1).  A particle's velocity is kept in 1/1000 px/s, its position in  *)
(* 1/1000000 px and its rotation in 1/1000 of its unit, so that            *)
(* v * (deltaTime / 1000) is exact.                                        *)
(***************************************************************************)
Samples == {0, 1}

\* a || b on numbers: b when a is falsy (0).
JsOr(a, b) == IF a = 0 THEN b ELSE a

DefaultMaxParticles == 100
DefaultEmissionRate == 10
DefaultDuration == -1

\* _random(min, max) with Math.random() = r / 2.
random(min, max, r) == min + (r * (max - min)) \div 2

\* Math.cos and Math.sin of an angle in degrees (angle * Math.PI / 180), for
\* the angles whose value is exact.
cosDeg(a) == CASE a = 0 -> 1
sinDeg(a) == CASE a = 0 -> 0

\* 1000 / emissionRate, in the unit of emissionAccumulator (1/emissionRate ms).
emitInterval == 1000

\* The samples of the six Math.random() calls of one emit(), in the order
\* of the calls.
EmitSamples ==
    [spreadX : Samples, spreadY : Samples, angle : Samples, speed : Samples,
     life : Samples, rotation : Samples]

\* The samples of an emit() whose lifetime sample is r and whose other
\* samples are 0.
LifeSample(r) ==
    [spreadX |-> 0, spreadY |-> 0, angle |-> 0, speed |-> 0, life |-> r,
     rotation |-> 0]
LifeSamples == {LifeSample(r) : r \in Samples}

\* Math.random() for the calls of one emit(): the next element of the
\* stream; a stream that has run out yields 0.
nextRandom(S) == IF S.rnd = <<>> THEN LifeSample(0) ELSE Head(S.rnd)
restRandom(S) == IF S.rnd = <<>> THEN <<>> ELSE Tail(S.rnd)

\* The spawn of an emit() that reads a spread of 0 as 1 (spread.x || 1).
spawnDefaultSpread(S) ==
    LET A == acquire(S)
        particle == A.ret
        r == nextRandom(S)
        angle == random(cfg.angle.min, cfg.angle.max, r.angle)
        speed == random(cfg.speed.min, cfg.speed.max, r.speed)
    IN [A EXCEPT !.heap[particle] =
                     [@ EXCEPT !.x = JsOr(cfg.x, 0) * 1000000
                                     + (r.spreadX - 1) * JsOr(cfg.spread.x, 1) * 500000,
                               !.y = JsOr(cfg.y, 0) * 1000000
                                     + (r.spreadY - 1) * JsOr(cfg.spread.y, 1) * 500000,
                               !.vx = cosDeg(angle) * speed * 1000,
                               !.vy = sinDeg(angle) * speed * 1000,
                               !.ay = JsOr(cfg.gravity, 0),
                               !.maxLife = random(life.min, life.max, r.life),
                               !.life = 0,
                               !.rotationSpeed =
                                   random(cfg.rotation.min, cfg.rotation.max,
                                          r.rotation),
                               !.active = TRUE],
                 !.particles = Append(A.particles, particle),
                 !.rnd = restRandom(S),
                 !.emits = S.emits + 1,
                 !.spawns = S.spawns + 1]

\* emit() below its capacity test: acquire a particle, initialise it and push
\* it.  ax and rotation are not assigned: they keep what the instance has.
spawn(S) ==
    LET A == acquire(S)
        particle == A.ret
        r == nextRandom(S)
        angle == random(cfg.angle.min, cfg.angle.max, r.angle)
        speed == random(cfg.speed.min, cfg.speed.max, r.speed)
    IN [A EXCEPT !.heap[particle] =
                     [@ EXCEPT !.x = JsOr(cfg.x, 0) * 1000000
                                     + (r.spreadX - 1) * cfg.spread.x * 500000,
                               !.y = JsOr(cfg.y, 0) * 1000000
                                     + (r.spreadY - 1) * cfg.spread.y * 500000,
                               !.vx = cosDeg(angle) * speed * 1000,
                               !.vy = sinDeg(angle) * speed * 1000,
                               !.ay = JsOr(cfg.gravity, 0),
                               !.maxLife = random(life.min, life.max, r.life),
                               !.life = 0,
                               !.rotationSpeed =
                                   random(cfg.rotation.min, cfg.rotation.max,
                                          r.rotation),
                               !.active = TRUE],
                 !.particles = Append(A.particles, particle),
                 !.rnd = restRandom(S),
                 !.emits = S.emits + 1,
                 !.spawns = S.spawns + 1]

\* emit() with > for >= in the test against maxParticles.
emitOffByOne(S) ==
    IF Len(S.particles) > maxParticles
    THEN [S EXCEPT !.emits = S.emits + 1]
    ELSE spawn(S)

\* emit() that acquires its particle before it tests the capacity.
emitAcquireFirst(S) ==
    IF Len(S.particles) >= maxParticles
    THEN [acquire(S) EXCEPT !.emits = S.emits + 1]
    ELSE spawn(S)

emit(S) ==
    IF Len(S.particles) >= maxParticles
    THEN [S EXCEPT !.emits = S.emits + 1]
    ELSE spawn(S)

RECURSIVE burstLoop(_, _)
\* for (let i = 0; i < this.burst; i++) this.emit(), from i on.
burstLoop(S, i) == IF i < burst THEN burstLoop(emit(S), i + 1) ELSE S

\* start() that leaves this.elapsed as it is.
startKeepsElapsed(S) ==
    LET S0 == [S EXCEPT !.emitterActive = TRUE,
                        !.emissionAccumulator = 0]
    IN IF burst > 0 THEN burstLoop(S0, 0) ELSE S0

start(S) ==
    LET S0 == [S EXCEPT !.emitterActive = TRUE,
                        !.elapsed = 0,
                        !.emissionAccumulator = 0]
    IN IF burst > 0 THEN burstLoop(S0, 0) ELSE S0

\* stop() that also drops the live particles.
stopDropsParticles(S) == [S EXCEPT !.emitterActive = FALSE, !.particles = <<>>]

stop(S) == [S EXCEPT !.emitterActive = FALSE]

\* The lifetime block without its if (this.duration > 0).
updateDurationUnguarded(S, deltaTime) ==
    LET e == S.elapsed + deltaTime
    IN [S EXCEPT !.elapsed = e,
                 !.emitterActive = IF e >= duration THEN FALSE ELSE @]

\* update(), first part: the emitter's lifetime.
updateDuration(S, deltaTime) ==
    IF duration > 0
    THEN LET e == S.elapsed + deltaTime
         IN [S EXCEPT !.elapsed = e,
                      !.emitterActive = IF e >= duration THEN FALSE ELSE @]
    ELSE S

\* The naive scheduler: one emit() and a cleared accumulator per tick.
emitOnce(S) ==
    IF S.emissionAccumulator >= emitInterval
    THEN [emit(S) EXCEPT !.emissionAccumulator = 0]
    ELSE S

RECURSIVE emitWhileRoom(_)
\* The emission loop that stops, without subtracting, when the emitter is full.
emitWhileRoom(S) ==
    IF S.emissionAccumulator >= emitInterval /\ Len(S.particles) < maxParticles
    THEN emitWhileRoom([emit(S) EXCEPT !.emissionAccumulator = @ - emitInterval])
    ELSE S

RECURSIVE emitWhile(_)
\* while (this.emissionAccumulator >= emitInterval) { emit(); subtract }
emitWhile(S) ==
    IF S.emissionAccumulator >= emitInterval
    THEN emitWhile([emit(S) EXCEPT !.emissionAccumulator = @ - emitInterval])
    ELSE S

\* The emission without the test of this.active.
updateEmissionAlways(S, deltaTime) ==
    IF emissionRate > 0
    THEN emitWhile([S EXCEPT !.emissionAccumulator = @ + deltaTime * emissionRate])
    ELSE S

\* update(), second part: emission of new particles.
updateEmission(S, deltaTime) ==
    IF S.emitterActive /\ emissionRate > 0
    THEN emitWhile([S EXCEPT !.emissionAccumulator = @ + deltaTime * emissionRate])
    ELSE S

RemoveAt(s, i) == SubSeq(s, 1, i - 1) \o SubSeq(s, i + 1, Len(s))

RECURSIVE updateParticlesNoRelease(_, _, _)
\* The pass without this.pool.release(particle).
updateParticlesNoRelease(S, i, deltaTime) ==
    IF i < 1 THEN S
    ELSE LET particle == S.particles[i]
             S1 == [S EXCEPT !.heap[particle] = ParticleUpdate(@, deltaTime)]
         IN IF ~S1.heap[particle].active
            THEN updateParticlesNoRelease(
                     [S1 EXCEPT !.particles = RemoveAt(@, i)], i - 1, deltaTime)
            ELSE updateParticlesNoRelease(S1, i - 1, deltaTime)

RECURSIVE forwardPass(_, _, _)
\* A pass that walks this.particles from index i (1-based) up and splices as
\* it goes, so that the particle behind a removed one is stepped over.
forwardPass(S, i, deltaTime) ==
    IF i > Len(S.particles) THEN S
    ELSE LET particle == S.particles[i]
             S1 == [S EXCEPT !.heap[particle] = ParticleUpdate(@, deltaTime)]
         IN IF ~S1.heap[particle].active
            THEN forwardPass(
                     [release(S1, particle) EXCEPT !.particles = RemoveAt(@, i)],
                     i + 1, deltaTime)
            ELSE forwardPass(S1, i + 1, deltaTime)

\* The pass of update() done forwards.
updateParticlesForward(S, i, deltaTime) == forwardPass(S, 1, deltaTime)

RECURSIVE updateParticles(_, _, _)
\* update(), third part: the backwards pass over this.particles from index i
\* (1-based) down.
updateParticles(S, i, deltaTime) ==
    IF i < 1 THEN S
    ELSE LET particle == S.particles[i]
             S1 == [S EXCEPT !.heap[particle] = ParticleUpdate(@, deltaTime)]
         IN IF ~S1.heap[particle].active
            THEN updateParticles(
                     [release(S1, particle) EXCEPT !.particles = RemoveAt(@, i)],
                     i - 1, deltaTime)
            ELSE updateParticles(S1, i - 1, deltaTime)

\* update() that emits before it looks at the duration.
updateEmitsFirst(S, deltaTime) ==
    LET S2 == updateDuration(updateEmission(S, deltaTime), deltaTime)
    IN updateParticles(S2, Len(S2.particles), deltaTime)

\* update() that runs the particle pass before the duration and emission.
updateAgesFirst(S, deltaTime) ==
    LET S1 == updateParticles(S, Len(S.particles), deltaTime)
    IN updateEmission(updateDuration(S1, deltaTime), deltaTime)

update(S, deltaTime) ==
    LET S2 == updateEmission(updateDuration(S, deltaTime), deltaTime)
    IN updateParticles(S2, Len(S2.particles), deltaTime)

\* draw(ctx) that takes each particle off this.particles as it renders it.
drawConsuming(S) == [S EXCEPT !.ret = S.particles, !.particles = <<>>]

\* draw(ctx): ret is the sequence of particles rendered, in order.
draw(S) == [S EXCEPT !.ret = S.particles]

getParticleCount(S) == Len(S.particles)

\* isComplete() that tests only the live list.
isCompleteIgnoresActive(S) == Len(S.particles) = 0

isComplete(S) == ~S.emitterActive /\ Len(S.particles) = 0

(***************************************************************************)
(* The standalone pool and its caller.                                     *)
(***************************************************************************)
\* What the caller may pass to release(): any instance, and 0, a value the
\* pool never created.
Objects == 0..MaxInstances

NoConfig ==
    [maxParticles |-> 0, emissionRate |-> 0, burst |-> 0, duration |-> 0,
     gravity |-> 0, speed |-> [min |-> 0, max |-> 0],
     angle |-> [min |-> 0, max |-> 0],
     rotation |-> [min |-> 0, max |-> 0], spread |-> [x |-> 0, y |-> 0],
     x |-> 0, y |-> 0]

InitPool ==
    /\ kind = "plain"
    /\ initialSize \in 0..MaxInitialSize
    /\ LET C == PoolConstructed(kind, initialSize)
       IN /\ heap = C.heap
          /\ pool = C.pool
          /\ active = C.active
          /\ factoryCalls = C.factoryCalls
    /\ emptyAcquires = 0
    /\ resetCalls = 0
    /\ held = <<>>
    /\ cleared = FALSE
    /\ released = FALSE
    /\ dropped = {}
    /\ cfg = NoConfig
    /\ maxParticles = 0
    /\ emissionRate = 0
    /\ burst = 0
    /\ duration = 0
    /\ life = [min |-> 0, max |-> 0]
    /\ emissionAccumulator = 0
    /\ elapsed = 0
    /\ emitterActive = FALSE
    /\ particles = <<>>
    /\ tickSum = 0
    /\ updateEmits = 0
    /\ hostEmits = 0
    /\ starts = 0
    /\ drawn = <<>>
    /\ emitters = <<>>
    /\ pools = <<>>
    /\ last = [op |-> "new", arg |-> 0]

\* pool.acquire() by the caller.
Acquire ==
    /\ Len(pool) > 0 \/ factoryCalls < MaxInstances
    /\ LET S == acquire(State)
       IN /\ CommitPool(S)
          /\ held' = Append(held, S.ret)
          /\ last' = [op |-> "acquire", arg |-> S.ret]
    /\ emptyAcquires' = emptyAcquires + (IF Len(pool) = 0 THEN 1 ELSE 0)
    /\ UNCHANGED <<cleared, released, dropped, configVars, emitterVars, emitterObs>>

\* pool.release(obj) by the caller, with any obj.
Release(obj) ==
    /\ CommitPool(release(State, obj))
    /\ held' = SeqWithout(held, obj)
    /\ last' = [op |-> "release", arg |-> obj]
    /\ released' = TRUE
    /\ UNCHANGED <<emptyAcquires, cleared, dropped, configVars, emitterVars, emitterObs>>

\* pool.releaseAll() by the caller.
ReleaseAll ==
    /\ CommitPool(releaseAll(State))
    /\ held' = <<>>
    /\ last' = [op |-> "releaseAll", arg |-> Len(active)]
    /\ released' = TRUE
    /\ UNCHANGED <<emptyAcquires, cleared, dropped, configVars, emitterVars, emitterObs>>

\* pool.clear() by the caller.
Clear ==
    /\ CommitPool(clear(State))
    /\ cleared' = TRUE
    /\ dropped' = dropped \cup Range(pool) \cup Range(active)
    /\ last' = [op |-> "clear", arg |-> 0]
    /\ UNCHANGED <<emptyAcquires, held, released, configVars, emitterVars, emitterObs>>

\* The caller writes to an object it holds (obj.value = 1).
Use(obj) ==
    /\ obj \in Range(held)
    /\ heap' = [heap EXCEPT ![obj].value = 1]
    /\ resetCalls' = 0
    /\ last' = [op |-> "use", arg |-> obj]
    /\ UNCHANGED <<pool, active, kind, initialSize, factoryCalls, emptyAcquires,
                   held, cleared, released, dropped, configVars, emitterVars,
                   hostVars, emitterObs>>

NextPool ==
    \/ Acquire
    \/ \E obj \in Objects : Release(obj)
    \/ ReleaseAll
    \/ Clear
    \/ \E obj \in Objects : Use(obj)

Spec == InitPool /\ [][NextPool]_vars


(***************************************************************************)
(* Claims about the standalone pool (specification Spec).                  *)
(***************************************************************************)
\* C1: as long as only acquire(), release() and releaseAll() were called,
\* available + active = total, total is the number of factory invocations
\* so far, and that number is initialSize plus one per acquire() that found
\* the free list empty.
C1_PoolConservation ==
    ~cleared =>
        /\ getStats(State).available + getStats(State).active
               = getStats(State).total
        /\ getStats(State).total = factoryCalls
        /\ factoryCalls = initialSize + emptyAcquires

\* The documented scenario: initialSize 2, three acquires, one release.
C1_Witness ==
    /\ ~cleared
    /\ initialSize = 2
    /\ last.op = "release"
    /\ getStats(State) = [available |-> 1, active |-> 2, total |-> 3]

\* C2: as long as only acquire(), release() and releaseAll() were called,
\* every instance created is in exactly one of the free list and the active
\* set, and the free list holds no instance twice.
C2_ExactlyOneCollection ==
    ~cleared =>
        /\ Range(pool) \cap Range(active) = {}
        /\ Range(pool) \cup Range(active) = 1..Len(heap)
        /\ NoDup(pool)
        /\ NoDup(active)

\* releaseAll() has just returned two lent instances.
C2_Witness ==
    /\ ~cleared
    /\ last = [op |-> "releaseAll", arg |-> 2]
    /\ Len(pool) = 3

\* C3: the results of acquire() that were not given back since are pairwise
\* distinct instances.
C3_NoDoubleHandout == NoDup(held)

\* Instance 1 was handed out, given back and handed out again while
\* instance 2 is still out.
C3_Witness ==
    /\ last = [op |-> "acquire", arg |-> 1]
    /\ held = <<2, 1>>

\* C4: release(obj) with obj not in the active set changes neither the free
\* list, the active set, any object nor the stats, and invokes no reset.
C4_ReleaseInactiveNoOp ==
    [][\A obj \in Objects :
          (obj \notin Range(active) /\ Release(obj)) =>
              /\ pool' = pool
              /\ active' = active
              /\ heap' = heap
              /\ resetCalls' = 0
              /\ getStats(State)' = getStats(State)]_vars

\* A second release of an instance that is already in the free list.
C4_Witness ==
    /\ last.op = "release"
    /\ last.arg \in Range(pool)
    /\ resetCalls = 0


(***************************************************************************)
(* The emitter and its host loop (specification EmitterSpec).              *)
(***************************************************************************)
MaxParticlesConfigs == {1, 2}
EmissionRateConfigs == {0, 30}
BurstConfigs == {0, 1, 3}
DurationConfigs == {0, 100}
LifeConfigs == {[min |-> 50, max |-> 100]}
DeltaTimes == {0, 50, 100}

GravityConfigs == {200}
SpeedConfigs == {[min |-> 100, max |-> 100]}
AngleConfigs == {[min |-> 0, max |-> 0]}
RotationConfigs == {[min |-> 2, max |-> 2]}
SpreadConfigs == {[x |-> 0, y |-> 0]}
XConfigs == {100}
YConfigs == {0}

Configs ==
    [maxParticles : MaxParticlesConfigs, emissionRate : EmissionRateConfigs,
     burst : BurstConfigs, duration : DurationConfigs, life : LifeConfigs,
     gravity : GravityConfigs, speed : SpeedConfigs, angle : AngleConfigs,
     rotation : RotationConfigs, spread : SpreadConfigs,
     x : XConfigs, y : YConfigs]

\* Configs that give 0 for maxParticles and emissionRate.
ZeroConfigs ==
    [maxParticles : {0}, emissionRate : {0},
     burst : BurstConfigs, duration : DurationConfigs, life : LifeConfigs,
     gravity : GravityConfigs, speed : SpeedConfigs, angle : AngleConfigs,
     rotation : RotationConfigs, spread : SpreadConfigs,
     x : XConfigs, y : YConfigs]

\* new ParticleEmitter(config), config drawn from the set configs.
Constructed(configs) ==
    /\ cfg \in configs
    /\ maxParticles = JsOr(cfg.maxParticles, DefaultMaxParticles)
    /\ emissionRate = JsOr(cfg.emissionRate, DefaultEmissionRate)
    /\ burst = JsOr(cfg.burst, 0)
    /\ duration = JsOr(cfg.duration, DefaultDuration)
    /\ life = cfg.life
    /\ kind = "particle"
    /\ initialSize = maxParticles
    /\ LET C == PoolConstructed(kind, initialSize)
       IN /\ heap = C.heap
          /\ pool = C.pool
          /\ active = C.active
          /\ factoryCalls = C.factoryCalls
    /\ particles = <<>>
    /\ emissionAccumulator = 0
    /\ elapsed = 0
    /\ emitterActive = FALSE
    /\ emptyAcquires = 0
    /\ resetCalls = 0
    /\ held = <<>>
    /\ cleared = FALSE
    /\ released = FALSE
    /\ dropped = {}
    /\ tickSum = 0
    /\ updateEmits = 0
    /\ hostEmits = 0
    /\ starts = 0
    /\ drawn = <<>>
    /\ emitters = <<>>
    /\ pools = <<>>
    /\ last = [op |-> "new", arg |-> 0]

InitEmitter == Constructed(Configs)

InitZero == Constructed(ZeroConfigs)

CommitEmitter(S) ==
    /\ heap' = S.heap
    /\ pool' = S.pool
    /\ active' = S.active
    /\ factoryCalls' = S.factoryCalls
    /\ resetCalls' = S.resetCalls
    /\ emissionAccumulator' = S.emissionAccumulator
    /\ elapsed' = S.elapsed
    /\ emitterActive' = S.emitterActive
    /\ particles' = S.particles
    /\ UNCHANGED <<kind, initialSize, configVars, hostVars, emptyAcquires, held,
                   cleared, released, dropped>>

Room(S) == IF Len(S.particles) >= maxParticles THEN 0 ELSE maxParticles - Len(S.particles)

\* How many particles the emit() calls of start() / update(deltaTime) spawn:
\* the number of Math.random() samples the call consumes.
SpawnsOfStart == Min(IF burst > 0 THEN burst ELSE 0, Room(State))
SpawnsOfUpdate(deltaTime) ==
    LET S == updateDuration(State, deltaTime)
    IN IF S.emitterActive /\ emissionRate > 0
       THEN Min((S.emissionAccumulator + deltaTime * emissionRate) \div emitInterval,
                Room(S))
       ELSE 0

\* emitter.start()
Start ==
    /\ starts < MaxStarts
    /\ \E rs \in [1..SpawnsOfStart -> LifeSamples] :
           LET S == start([State EXCEPT !.rnd = rs])
           IN /\ CommitEmitter(S)
              /\ last' = [op |-> "start", arg |-> S.spawns]
    /\ starts' = starts + 1
    /\ tickSum' = 0
    /\ updateEmits' = 0
    /\ hostEmits' = 0
    /\ drawn' = <<>>

\* emitter.stop()
Stop ==
    /\ CommitEmitter(stop(State))
    /\ last' = [op |-> "stop", arg |-> 0]
    /\ drawn' = <<>>
    /\ UNCHANGED <<tickSum, updateEmits, hostEmits, starts>>

\* emitter.emit() called by the host
Emit ==
    /\ hostEmits < MaxHostEmits
    /\ \E rs \in [1..Min(1, Room(State)) -> LifeSamples] :
           LET S == emit([State EXCEPT !.rnd = rs])
           IN /\ CommitEmitter(S)
              /\ last' = [op |-> "emit", arg |-> S.spawns]
    /\ hostEmits' = hostEmits + 1
    /\ drawn' = <<>>
    /\ UNCHANGED <<tickSum, updateEmits, starts>>

\* emitter.update(deltaTime)
UpdateCall(deltaTime) ==
    /\ \E rs \in [1..SpawnsOfUpdate(deltaTime) -> LifeSamples] :
           LET S == update([State EXCEPT !.rnd = rs], deltaTime)
           IN /\ CommitEmitter(S)
              /\ updateEmits' = updateEmits + S.emits
              /\ last' = [op |-> "update", arg |-> S.spawns]
    /\ tickSum' = tickSum + deltaTime
    /\ drawn' = <<>>
    /\ UNCHANGED <<hostEmits, starts>>

\* emitter.update(deltaTime) by the host loop, within the time bound.
Update(deltaTime) == tickSum + deltaTime <= MaxTime /\ UpdateCall(deltaTime)

\* emitter.draw(ctx): the particles rendered are those of this.particles.
Draw ==
    /\ LET S == draw(State)
       IN /\ CommitEmitter(S)
          /\ drawn' = S.ret
          /\ last' = [op |-> "draw", arg |-> Len(S.ret)]
    /\ UNCHANGED <<tickSum, updateEmits, hostEmits, starts>>

NextEmitter ==
    \/ Start
    \/ Stop
    \/ Emit
    \/ \E deltaTime \in DeltaTimes : Update(deltaTime)
    \/ Draw

EmitterSpec == InitEmitter /\ [][NextEmitter]_vars

\* The host of an emitter built from a zero config starts it once.
StartOnce == starts = 0 /\ Start

NextZero ==
    \/ StartOnce
    \/ Stop
    \/ Emit
    \/ \E deltaTime \in DeltaTimes : Update(deltaTime)
    \/ Draw

ZeroSpec == InitZero /\ [][NextZero]_vars

\* A host that starts an emitter of infinite duration once and then only
\* ticks it, with frame times that do not divide the emission interval.
RateConfigs ==
    [maxParticles : {10}, emissionRate : {10, 30}, burst : {0},
     duration : {DefaultDuration}, life : {[min |-> 50, max |-> 50]},
     gravity : GravityConfigs, speed : SpeedConfigs, angle : AngleConfigs,
     rotation : RotationConfigs, spread : SpreadConfigs,
     x : XConfigs, y : YConfigs]
RateDeltaTimes == {0, 33, 50}

InitRate == Constructed(RateConfigs)

Tick(deltaTime) ==
    /\ starts = 1
    /\ tickSum + deltaTime <= MaxRateTime
    /\ UpdateCall(deltaTime)

NextRate ==
    \/ StartOnce
    \/ \E deltaTime \in RateDeltaTimes : Tick(deltaTime)

RateSpec == InitRate /\ [][NextRate]_vars


(***************************************************************************)
(* Claims about the emitter (specifications EmitterSpec and ZeroSpec).     *)
(***************************************************************************)
\* C5: with maxParticles configured as a positive integer M, the number of
\* live particles never exceeds M.
C5_CapacityCeiling ==
    cfg.maxParticles > 0 => getParticleCount(State) <= cfg.maxParticles

\* start() with burst 3 on an emitter of capacity 2 spawned only two.
C5_Witness ==
    /\ cfg.maxParticles = 2
    /\ cfg.burst = 3
    /\ last = [op |-> "start", arg |-> 2]
    /\ getParticleCount(State) = 2

\* C6: the live-particle list holds exactly the instances of the pool's
\* active set, each once, so getParticleCount() = getStats().active; draw()
\* renders exactly these.
C6_LiveListIsActiveSet ==
    /\ Range(particles) = Range(active)
    /\ NoDup(particles)
    /\ getParticleCount(State) = getStats(State).active
    /\ last.op = "draw" => Range(drawn) = Range(active)

\* An update() released an expired particle while another stays live.
C6_Witness ==
    /\ last.op = "update"
    /\ resetCalls = 1
    /\ getParticleCount(State) = 1

C8_EmissionRateConvergence ==
    (emitterActive /\ duration = DefaultDuration /\ emissionRate > 0) =>
        LET expected == (emissionRate * tickSum) \div 1000
        IN /\ updateEmits >= expected - 1
           /\ updateEmits <= expected + 1
           /\ getParticleCount(State) <= maxParticles

\* Thirty update(33) calls at 10 particles per second: 990 ms, 9 invocations,
\* 90 ms left in the accumulator.
C8_Witness ==
    /\ emitterActive
    /\ duration = DefaultDuration
    /\ emissionRate = 10
    /\ maxParticles = 10
    /\ tickSum = 990
    /\ updateEmits = 9
    /\ emissionAccumulator = 900

\* C9: once the update time since start() exceeds the configured duration
\* plus life.max (the host having only ticked the emitter since),
\* isComplete() is true and the pool has no active instance.
C9_LifecycleCompletion ==
    (starts > 0 /\ hostEmits = 0 /\ tickSum > cfg.duration + life.max) =>
        /\ isComplete(State)
        /\ getStats(State).active = 0

\* The same with the durations the constructor keeps (duration > 0).
C9_PositiveDuration ==
    (starts > 0 /\ hostEmits = 0 /\ cfg.duration > 0
        /\ tickSum > cfg.duration + life.max) =>
        /\ isComplete(State)
        /\ getStats(State).active = 0

\* C10: an emitter configured with maxParticles = 0 never has a live
\* particle.
C10_ZeroCapacityInert ==
    cfg.maxParticles = 0 => getParticleCount(State) = 0


\* C11: for every configured duration D >= 0, D = 0 included, once the
\* update time since start() has reached D the emitter is not active after
\* every update(), until start() is called again.
C11_DurationExpires ==
    (starts > 0 /\ last.op = "update" /\ tickSum >= cfg.duration) =>
        ~emitterActive

\* The same for the durations the constructor keeps: D > 0.
C11_PositiveDuration ==
    (starts > 0 /\ last.op = "update" /\ cfg.duration > 0
        /\ tickSum >= cfg.duration) =>
        ~emitterActive


\* C12: an update() of an emitter that is not active spawns no particle: it
\* acquires nothing from the pool and invokes no factory, and the number of
\* live particles does not grow.
C12_InactiveUpdateSpawnsNothing ==
    [][\A deltaTime \in DeltaTimes :
          (~emitterActive /\ UpdateCall(deltaTime)) =>
              /\ last'.arg = 0
              /\ factoryCalls' = factoryCalls
              /\ Range(active') \subseteq Range(active)
              /\ Range(particles') \subseteq Range(particles)
              /\ Len(particles') <= Len(particles)]_vars

\* An update() after stop(): the duration is infinite, so the emitter was
\* not active before that update(); time was owed to the accumulator and a
\* particle is still live.
C12_Witness ==
    /\ last.op = "update"
    /\ ~emitterActive
    /\ duration = DefaultDuration
    /\ cfg.emissionRate = 30
    /\ emissionAccumulator > 0
    /\ tickSum >= 100
    /\ Len(particles) > 0


\* C13: stop() clears the active flag and nothing else: the live list, every
\* particle, the pool, the accumulator and elapsed stay as they were.  On the
\* update() calls of an emitter that is not active each live particle ages by
\* deltaTime, and leaves the list exactly when its life reaches its maxLife.
C13_StopOnlyClearsFlag ==
    [][/\ Stop =>
            /\ ~emitterActive'
            /\ UNCHANGED <<heap, pool, active, particles,
                           emissionAccumulator, elapsed, factoryCalls>>
       /\ \A deltaTime \in DeltaTimes :
            (~emitterActive /\ UpdateCall(deltaTime)) =>
                \A p \in Range(particles) :
                    IF heap[p].life + deltaTime >= heap[p].maxLife
                    THEN p \notin Range(particles')
                    ELSE /\ p \in Range(particles')
                         /\ heap'[p].life = heap[p].life + deltaTime
                         /\ heap'[p].active]_vars

\* stop() on an emitter with a live particle, time owed to the accumulator
\* and elapsed time counted.
C13_Witness ==
    /\ last.op = "stop"
    /\ Len(particles) > 0
    /\ emissionAccumulator > 0
    /\ elapsed > 0


\* C14: start() sets active, zeroes the accumulator and elapsed and removes
\* no particle: the particles live before it stay as they were, at the front
\* of the list.  With burst = B > 0 the number of live particles after it is
\* min(number before + B, maxParticles), whatever the emitter's state.
C14_StartRestarts ==
    [][Start =>
          /\ emitterActive'
          /\ emissionAccumulator' = 0
          /\ elapsed' = 0
          /\ Len(particles') >= Len(particles)
          /\ SubSeq(particles', 1, Len(particles)) = particles
          /\ \A p \in Range(particles) : heap'[p] = heap[p]
          /\ burst > 0 =>
                Len(particles') = Min(Len(particles) + burst, maxParticles)]_vars

\* A second start(), on an emitter that has one particle live and aged: the
\* burst of 1 adds a second one and reaches the capacity of 2 from below.
C14_Witness ==
    /\ last = [op |-> "start", arg |-> 1]
    /\ starts = 2
    /\ cfg.burst = 1
    /\ cfg.maxParticles = 2
    /\ cfg.duration = 100
    /\ tickSum = 0
    /\ Len(particles) = 2
    /\ heap[particles[1]].life > 0


\* C15: emit() on an emitter whose live count equals maxParticles does
\* nothing: it acquires nothing from the pool, invokes no factory, and leaves
\* the live list, the pool and every particle as they were.
C15_EmitAtCapacityNoOp ==
    [][(Len(particles) = maxParticles /\ Emit) =>
          /\ last'.arg = 0
          /\ getStats([State EXCEPT !.pool = pool', !.active = active'])
                = getStats(State)
          /\ UNCHANGED <<heap, pool, active, particles, factoryCalls,
                         emissionAccumulator, elapsed, emitterActive>>]_vars

\* The host's emit() on a full emitter of capacity 2 whose pool has no free
\* instance left.
C15_Witness ==
    /\ last = [op |-> "emit", arg |-> 0]
    /\ hostEmits = 1
    /\ maxParticles = 2
    /\ Len(particles) = 2
    /\ pool = <<>>


\* C16: acquire() pops the top of the free list when there is one and invokes
\* factory() only when the free list is empty; either way it returns an
\* instance that is then in the active set.  So a pool built with initialSize
\* n reports, after k acquires and no release, available = max(n - k, 0),
\* active = k and total = max(n, k); with n = 2, releasing one of three
\* acquired instances gives {available: 1, active: 2, total: 3}.
C16_AcquireRecyclesFirst ==
    /\ []((~released /\ ~cleared) =>
             getStats(State) = [available |-> Max(initialSize - Len(held), 0),
                                active |-> Len(held),
                                total |-> Max(initialSize, Len(held))])
    /\ [][/\ Acquire =>
               /\ IF Len(pool) > 0
                  THEN /\ last'.arg = pool[Len(pool)]
                       /\ pool' = SubSeq(pool, 1, Len(pool) - 1)
                       /\ factoryCalls' = factoryCalls
                       /\ heap' = heap
                  ELSE /\ last'.arg \notin 1..Len(heap)
                       /\ factoryCalls' = factoryCalls + 1
                       /\ pool' = pool
               /\ last'.arg \in Range(active')
               /\ last'.arg \notin Range(active)
          /\ \A obj \in Range(held) :
               (initialSize = 2 /\ Len(held) = 3 /\ ~released /\ ~cleared
                    /\ Release(obj)) =>
                   getStats([State EXCEPT !.pool = pool', !.active = active'])
                       = [available |-> 1, active |-> 2, total |-> 3]]_vars

\* The third acquire() on a pool of initialSize 2: two recycled instances and
\* a fresh one, all distinct.
C16_Witness ==
    /\ last.op = "acquire"
    /\ initialSize = 2
    /\ ~released
    /\ ~cleared
    /\ Len(held) = 3
    /\ NoDup(held)
    /\ factoryCalls = 3
    /\ getStats(State) = [available |-> 0, active |-> 3, total |-> 3]


\* Every instance in the free list is in the state factory() creates and
\* reset() restores.
FreeListInert == \A o \in Range(pool) : heap[o] = factory(kind)

\* C17: release() of an active instance applies reset to it exactly once and
\* then pushes it on the free list; so every instance in the free list is in
\* the inert state, those the constructor created and those releaseAll()
\* returned included.
C17_FreeListIsInert ==
    /\ []FreeListInert
    /\ [][\A obj \in Objects :
             (obj \in Range(active) /\ Release(obj)) =>
                 /\ resetCalls' = 1
                 /\ heap'[obj] = factory(kind)
                 /\ pool' = Append(pool, obj)
                 /\ \A o \in DOMAIN heap : o # obj => heap'[o] = heap[o]]_vars

\* A release() has reset its instance and pushed it on a free list of at
\* least two, while another instance is in use by the caller.
C17_Witness ==
    /\ last.op = "release"
    /\ resetCalls = 1
    /\ Len(pool) >= 2
    /\ pool[Len(pool)] = last.arg
    /\ \E o \in Range(held) : heap[o] # factory(kind)


\* C18: releaseAll() applies reset once to each active instance and moves it
\* to the free list: afterwards no instance is active, the free list holds as
\* many instances as the pool owned before, the total is unchanged, the
\* instances moved are inert and none is in the free list twice.
C18_ReleaseAllMovesAll ==
    [][ReleaseAll =>
          LET before == getStats(State)
              after == getStats([State EXCEPT !.pool = pool', !.active = active'])
          IN /\ after.active = 0
             /\ after.available = before.total
             /\ after.total = before.total
             /\ resetCalls' = before.active
             /\ Range(pool') = Range(pool) \cup Range(active)
             /\ \A o \in Range(active) : heap'[o] = factory(kind)
             /\ NoDup(pool')]_vars

\* releaseAll() of three active instances, one of them a fresh one, into an
\* empty free list.
C18_Witness ==
    /\ last = [op |-> "releaseAll", arg |-> 3]
    /\ resetCalls = 3
    /\ Len(pool) = 3
    /\ initialSize = 2
    /\ active = <<>>


\* C19: clear() empties the free list and the active set and invokes no
\* reset: getStats() is then {available: 0, active: 0, total: 0}.  The pool
\* never holds an instance it dropped again: a release() of one is a no-op,
\* and the acquire() after a clear() creates a fresh instance with factory().
C19_ClearDropsAll ==
    /\ [](dropped \cap (Range(pool) \cup Range(active)) = {})
    /\ [][/\ Clear =>
               /\ getStats([State EXCEPT !.pool = pool', !.active = active'])
                      = [available |-> 0, active |-> 0, total |-> 0]
               /\ resetCalls' = 0
               /\ UNCHANGED <<heap, factoryCalls>>
          /\ \A obj \in dropped :
               Release(obj) =>
                   /\ resetCalls' = 0
                   /\ UNCHANGED <<heap, pool, active>>
          /\ Acquire =>
               /\ last'.arg \notin dropped
               /\ last.op = "clear" =>
                      /\ factoryCalls' = factoryCalls + 1
                      /\ last'.arg \notin 1..Len(heap)]_vars

\* On a pool that creates its instances on demand: a release() of an instance
\* acquired before the clear(), while a fresh instance acquired after the
\* clear() is the only one the pool knows.
C19_Witness ==
    /\ last.op = "release"
    /\ last.arg \in dropped
    /\ initialSize = 0
    /\ resetCalls = 0
    /\ pool = <<>>
    /\ Len(active) = 1
    /\ active[1] \notin dropped


\* C20: draw(ctx) changes neither the emitter nor a particle: the live list,
\* every particle's fields, the accumulator, elapsed, the active flag and the
\* pool are the same after it as before, and it renders the live particles.
C20_DrawIsReadOnly ==
    [][Draw =>
          /\ UNCHANGED <<heap, pool, active, particles, emissionAccumulator,
                         elapsed, emitterActive, factoryCalls>>
          /\ getStats([State EXCEPT !.pool = pool', !.active = active'])
                 = getStats(State)
          /\ resetCalls' = 0
          /\ drawn' = particles]_vars

\* draw() of two live particles, one of them aged, on an active emitter that
\* is owed time by its accumulator.
C20_Witness ==
    /\ last = [op |-> "draw", arg |-> 2]
    /\ drawn = particles
    /\ Len(particles) = 2
    /\ heap[particles[1]].life > 0
    /\ emitterActive
    /\ emissionAccumulator > 0



(***************************************************************************)
(* A host with two emitters (specification TwoSpec).  Every object lives   *)
(* in the one heap; an emitter refers to its pool by the pool's identity,  *)
(* its index in pools.  The two emitters are built from the same config.   *)
(***************************************************************************)
\* In TwoSpec, an emitter is not updated once its time since start() would
\* pass this.
MaxTwoTime == 100
\* In TwoSpec, each emitter is started at most this often.
MaxTwoStarts == 1

Emitters == {1, 2}

\* new ObjectPool(factory, reset, n) in the host H: n factory() calls pushed
\* on the free list of a new pool.
newPool(H, k, n) ==
    [H EXCEPT !.heap = H.heap \o [i \in 1..n |-> factory(k)],
              !.factoryCalls = H.factoryCalls + n,
              !.pools = Append(H.pools,
                               [pool |-> [i \in 1..n |-> Len(H.heap) + i],
                                active |-> <<>>])]

\* The emitter object the constructor leaves; starts and tickSum observe the
\* calls made on it.
EmitterObject(poolId) ==
    [pool |-> poolId, particles |-> <<>>, emissionAccumulator |-> 0,
     elapsed |-> 0, active |-> FALSE, starts |-> 0, tickSum |-> 0]

\* A constructor that takes one module-wide pool for every emitter.
newEmitterSharedPool(H) ==
    IF H.pools = <<>>
    THEN LET H1 == newPool(H, "particle", maxParticles)
         IN [H1 EXCEPT !.emitters = Append(H1.emitters, EmitterObject(1))]
    ELSE [H EXCEPT !.emitters = Append(H.emitters, EmitterObject(1))]

\* new ParticleEmitter(config): this.pool = new ObjectPool(...).
newEmitter(H) ==
    LET H1 == newPool(H, "particle", maxParticles)
    IN [H1 EXCEPT !.emitters = Append(H1.emitters, EmitterObject(Len(H1.pools)))]

NoHost == [heap |-> <<>>, factoryCalls |-> 0, pools |-> <<>>, emitters |-> <<>>]

TwoConfigs ==
    [maxParticles : {1, 2}, emissionRate : {30}, burst : {0, 1},
     duration : {0}, life : {[min |-> 50, max |-> 100]},
     gravity : GravityConfigs, speed : SpeedConfigs, angle : AngleConfigs,
     rotation : RotationConfigs, spread : SpreadConfigs,
     x : XConfigs, y : YConfigs]

TwoDeltaTimes == {50}

\* Two emitters constructed from one config of the set configs.
ConstructedTwo(configs) ==
    /\ cfg \in configs
    /\ maxParticles = JsOr(cfg.maxParticles, DefaultMaxParticles)
    /\ emissionRate = JsOr(cfg.emissionRate, DefaultEmissionRate)
    /\ burst = JsOr(cfg.burst, 0)
    /\ duration = JsOr(cfg.duration, DefaultDuration)
    /\ life = cfg.life
    /\ kind = "particle"
    /\ initialSize = maxParticles
    /\ LET H == newEmitter(newEmitter(NoHost))
       IN /\ heap = H.heap
          /\ factoryCalls = H.factoryCalls
          /\ pools = H.pools
          /\ emitters = H.emitters
    /\ pool = <<>>
    /\ active = <<>>
    /\ particles = <<>>
    /\ emissionAccumulator = 0
    /\ elapsed = 0
    /\ emitterActive = FALSE
    /\ emptyAcquires = 0
    /\ resetCalls = 0
    /\ held = <<>>
    /\ cleared = FALSE
    /\ released = FALSE
    /\ dropped = {}
    /\ tickSum = 0
    /\ updateEmits = 0
    /\ hostEmits = 0
    /\ starts = 0
    /\ drawn = <<>>
    /\ last = [op |-> "new", arg |-> 0]

InitTwo == ConstructedTwo(TwoConfigs)

\* The emitter e as the methods see it: its own fields, and the collections
\* of the pool this.pool refers to.
StateOf(e) ==
    [State EXCEPT !.pool = pools[emitters[e].pool].pool,
                  !.active = pools[emitters[e].pool].active,
                  !.emissionAccumulator = emitters[e].emissionAccumulator,
                  !.elapsed = emitters[e].elapsed,
                  !.emitterActive = emitters[e].active,
                  !.particles = emitters[e].particles]

\* The state a method of emitter e leaves: S written to the emitter's fields
\* and to its pool.
CommitTwo(e, S, n, t) ==
    /\ heap' = S.heap
    /\ factoryCalls' = S.factoryCalls
    /\ resetCalls' = S.resetCalls
    /\ pools' = [pools EXCEPT ![emitters[e].pool] =
                                  [pool |-> S.pool, active |-> S.active]]
    /\ emitters' = [emitters EXCEPT ![e] =
                       [@ EXCEPT !.particles = S.particles,
                                 !.emissionAccumulator = S.emissionAccumulator,
                                 !.elapsed = S.elapsed,
                                 !.active = S.emitterActive,
                                 !.starts = n,
                                 !.tickSum = t]]
    /\ UNCHANGED <<pool, active, kind, initialSize, configVars, emitterVars,
                   emptyAcquires, held, cleared, released, dropped, emitterObs>>

TwoSpawnsOfStart(e) == Min(IF burst > 0 THEN burst ELSE 0, Room(StateOf(e)))
TwoSpawnsOfUpdate(e, deltaTime) ==
    LET S == updateDuration(StateOf(e), deltaTime)
    IN IF S.emitterActive /\ emissionRate > 0
       THEN Min((S.emissionAccumulator + deltaTime * emissionRate) \div emitInterval,
                Room(S))
       ELSE 0

\* emitters[e].start()
TwoStart(e) ==
    /\ emitters[e].starts < MaxTwoStarts
    /\ \E rs \in [1..TwoSpawnsOfStart(e) -> LifeSamples] :
           CommitTwo(e, start([StateOf(e) EXCEPT !.rnd = rs]),
                     emitters[e].starts + 1, 0)
    /\ last' = [op |-> "start", arg |-> e]

\* emitters[e].stop()
TwoStop(e) ==
    /\ CommitTwo(e, stop(StateOf(e)), emitters[e].starts, emitters[e].tickSum)
    /\ last' = [op |-> "stop", arg |-> e]

\* emitters[e].update(deltaTime)
TwoUpdate(e, deltaTime) ==
    /\ emitters[e].tickSum + deltaTime <= MaxTwoTime
    /\ \E rs \in [1..TwoSpawnsOfUpdate(e, deltaTime) -> LifeSamples] :
           CommitTwo(e, update([StateOf(e) EXCEPT !.rnd = rs], deltaTime),
                     emitters[e].starts, emitters[e].tickSum + deltaTime)
    /\ last' = [op |-> "update", arg |-> e]

\* emitters[e].draw(ctx)
TwoDraw(e) ==
    /\ CommitTwo(e, draw(StateOf(e)), emitters[e].starts, emitters[e].tickSum)
    /\ last' = [op |-> "draw", arg |-> e]

\* Any method call on emitter e.
OnEmitter(e) ==
    \/ TwoStart(e)
    \/ TwoStop(e)
    \/ \E deltaTime \in TwoDeltaTimes : TwoUpdate(e, deltaTime)
    \/ TwoDraw(e)

NextTwo == \E e \in Emitters : OnEmitter(e)

TwoSpec == InitTwo /\ [][NextTwo]_vars

\* The instances emitter e can reach: its live list and both collections of
\* its pool.
InstancesOf(e) ==
    Range(emitters[e].particles) \cup Range(pools[emitters[e].pool].pool)
        \cup Range(pools[emitters[e].pool].active)

\* C21: each emitter has a pool of its own: a method call on one emitter
\* leaves every other emitter's fields, live list, pool (free list, active
\* set, stats) and particles as they were, and no particle is live in two
\* emitters.
C21_EmittersIndependent ==
    /\ [](\A e, o \in Emitters :
             e # o =>
                 /\ emitters[e].pool # emitters[o].pool
                 /\ InstancesOf(e) \cap InstancesOf(o) = {})
    /\ [][\A e, o \in Emitters :
             (e # o /\ OnEmitter(e)) =>
                 /\ emitters'[o] = emitters[o]
                 /\ pools'[emitters'[o].pool] = pools[emitters[o].pool]
                 /\ \A p \in InstancesOf(o) : heap'[p] = heap[p]]_vars

\* Emitter 1 was updated while both emitters are active and have a live
\* particle, emitter 2 being further in its time.
C21_Witness ==
    /\ last = [op |-> "update", arg |-> 1]
    /\ emitters[1].active
    /\ emitters[2].active
    /\ Len(emitters[1].particles) >= 1
    /\ Len(emitters[2].particles) >= 1
    /\ emitters[2].tickSum > emitters[1].tickSum



(***************************************************************************)
(* Claims about the emitter's lifetime, ageing and scheduling.             *)
(***************************************************************************)
\* C22: with the default duration of -1 an update(), whatever its deltaTime,
\* leaves an active emitter active: only stop() ends the emission.
C22_InfiniteDurationStaysActive ==
    [][\A deltaTime \in DeltaTimes \cup RateDeltaTimes :
          (duration = DefaultDuration /\ emitterActive /\ UpdateCall(deltaTime)) =>
              emitterActive']_vars

\* An emitter of duration -1 is still active after a second of updates.
C22_Witness ==
    /\ last.op = "update"
    /\ cfg.duration = DefaultDuration
    /\ duration = DefaultDuration
    /\ emitterActive
    /\ tickSum >= 1000


\* C23: after an update() every live particle is active and younger than its
\* maxLife.  A particle whose age reaches its maxLife in an update() is, after
\* it, off the live list, out of the active set, in the free list and reset;
\* Particle.update() does not integrate its velocity in that tick.
C23_ExpiredParticlesLeave ==
    /\ [](last.op = "update" =>
             \A p \in Range(particles) :
                 heap[p].active /\ heap[p].life < heap[p].maxLife)
    /\ [](\A p \in Range(particles) : \A deltaTime \in DeltaTimes :
             heap[p].life + deltaTime >= heap[p].maxLife =>
                 LET q == ParticleUpdate(heap[p], deltaTime)
                 IN /\ ~q.active
                    /\ q.vx = heap[p].vx
                    /\ q.vy = heap[p].vy)
    /\ [][\A deltaTime \in DeltaTimes :
             UpdateCall(deltaTime) =>
                 \A p \in Range(particles) :
                     heap[p].life + deltaTime >= heap[p].maxLife =>
                         /\ p \notin Range(particles')
                         /\ p \notin Range(active')
                         /\ p \in Range(pool')
                         /\ heap'[p] = ParticleReset]_vars

\* An update() released a particle and aged another, which gravity has
\* accelerated.
C23_Witness ==
    /\ last.op = "update"
    /\ resetCalls >= 1
    /\ Len(particles) >= 1
    /\ heap[particles[1]].life > 0
    /\ heap[particles[1]].vy > 0


\* Particle.getProgress(): the quotient life / maxLife, kept as a fraction.
\* A denominator of 0 is JavaScript's NaN (0 / 0) or Infinity.
getProgress(p) == [num |-> p.life, den |-> p.maxLife]

\* An emitter whose lifetime range starts at 0.
ProgressConfigs ==
    [maxParticles : {1, 2}, emissionRate : {30}, burst : {0, 1},
     duration : {0, 100}, life : {[min |-> 0, max |-> 0], [min |-> 0, max |-> 100]},
     gravity : GravityConfigs, speed : SpeedConfigs, angle : AngleConfigs,
     rotation : RotationConfigs, spread : SpreadConfigs,
     x : XConfigs, y : YConfigs]

InitProgress == Constructed(ProgressConfigs)

ProgressSpec == InitProgress /\ [][NextEmitter]_vars

\* The progress draw() computes for each particle it renders is a number in
\* [0, 1].
ProgressInUnitInterval ==
    last.op = "draw" =>
        \A p \in Range(drawn) :
            LET progress == getProgress(heap[p])
            IN /\ progress.den > 0
               /\ 0 <= progress.num
               /\ progress.num <= progress.den

\* C24: at every draw(), for every configuration with 0 <= life.min <=
\* life.max, each live particle has maxLife > 0 and 0 <= life <= maxLife, so
\* that its progress life / maxLife is a number in [0, 1].
C24_ProgressWellDefined ==
    (0 <= cfg.life.min /\ cfg.life.min <= cfg.life.max) => ProgressInUnitInterval

\* The same for the lifetime ranges that start above 0.
C24_PositiveLife ==
    (0 < cfg.life.min /\ cfg.life.min <= cfg.life.max) => ProgressInUnitInterval


\* C25: update() adds its deltaTime to elapsed on every call, whatever the
\* duration and whether the emitter is active or not: once start() has been
\* called, elapsed is the sum of the deltaTime of the update() calls since
\* the last start().
C25_ElapsedAccumulates == starts > 0 => elapsed = tickSum

\* The same for the emitters of a finite duration.
C25_FiniteDuration == (starts > 0 /\ duration > 0) => elapsed = tickSum


\* C26: update() tests the duration before it emits: an update() spawns a
\* particle only if the time since start() is, after it, still strictly below
\* the configured duration; the update() that reaches the duration emits
\* nothing.
C26_DurationBeforeEmission ==
    (last.op = "update" /\ last.arg > 0) => tickSum < cfg.duration

\* The same for the durations the constructor keeps: D > 0.
C26_PositiveDuration ==
    (cfg.duration > 0 /\ last.op = "update" /\ last.arg > 0) =>
        tickSum < cfg.duration


\* C27: with a rate R > 0 the accumulator is at least 0 and below the emit
\* interval 1000 / R after every update().  An update() of an active emitter
\* calls emit() once per interval the accumulator holds, at capacity too, and
\* keeps the remainder, so nothing is carried over as a backlog; an update()
\* of an emitter that is not active leaves the accumulator as it is.
\* (emissionAccumulator is in units of 1/R ms: the interval is emitInterval.)
C27_AccumulatorBelowInterval ==
    /\ [](cfg.emissionRate > 0 =>
             0 <= emissionAccumulator /\ emissionAccumulator < emitInterval)
    /\ [][\A deltaTime \in DeltaTimes :
             (cfg.emissionRate > 0 /\ UpdateCall(deltaTime)) =>
                 LET owed == emissionAccumulator + deltaTime * emissionRate
                 IN IF updateDuration(State, deltaTime).emitterActive
                    THEN /\ updateEmits' - updateEmits = owed \div emitInterval
                         /\ emissionAccumulator' = owed % emitInterval
                    ELSE /\ updateEmits' = updateEmits
                         /\ emissionAccumulator' = emissionAccumulator]_vars

\* An active emitter of capacity 1 after updates of 50 and 100 ms at 30
\* particles per second: four emit() calls, at most two of which spawned, and
\* half an interval left in the accumulator.
C27_Witness ==
    /\ last.op = "update"
    /\ emitterActive
    /\ cfg.emissionRate = 30
    /\ maxParticles = 1
    /\ tickSum = 150
    /\ updateEmits = 4
    /\ emissionAccumulator = 500


\* The work of an update() step: the iterations of its emission loop (its
\* emit() calls) plus the particles its pass visits (the live ones after the
\* emission).
UpdateWork == (updateEmits' - updateEmits) + Len(particles) + last'.arg

\* C28: the work of one update() is bounded by the capacity alone, whatever
\* deltaTime and emissionRate: a loop that ends when the emitter is full
\* iterates at most maxParticles times, and the pass visits at most
\* maxParticles particles.
C28_UpdateWorkBounded ==
    [][\A deltaTime \in DeltaTimes :
          UpdateCall(deltaTime) => UpdateWork <= 2 * maxParticles]_vars

\* The emission loop iterates once per interval that deltaTime covers.
C28_WorkGrowsWithTime ==
    [][\A deltaTime \in DeltaTimes :
          (emitterActive /\ duration = DefaultDuration /\ UpdateCall(deltaTime)) =>
              updateEmits' - updateEmits =
                  (emissionAccumulator + deltaTime * emissionRate) \div emitInterval]_vars


\* C29: in an emitter of a positive integer capacity maxParticles = M the
\* pool's factory is not invoked after the constructor: in every state the
\* pool owns M instances, and the free ones and the live particles are M
\* together.
C29_PoolNeverGrows ==
    cfg.maxParticles > 0 =>
        /\ factoryCalls = cfg.maxParticles
        /\ Len(heap) = cfg.maxParticles
        /\ getStats(State).total = cfg.maxParticles
        /\ getStats(State).available + getParticleCount(State) = cfg.maxParticles

\* An emitter of capacity 2, started twice, whose last update() released a
\* particle and left the other live.
C29_Witness ==
    /\ cfg.maxParticles = 2
    /\ starts = 2
    /\ last.op = "update"
    /\ resetCalls = 1
    /\ Len(particles) = 1
    /\ Len(pool) = 1



(***************************************************************************)
(* The prebuilt burst effects (specification EffectsSpec): the host builds *)
(* one, starts it once, and updates and draws it.                          *)
(***************************************************************************)
\* In EffectsSpec, update() is not called once the time since start() would
\* pass this.
MaxEffectTime == 650

\* ParticleEffects.explosion(x, y)
explosion ==
    [maxParticles |-> 50, burst |-> 30, emissionRate |-> 0, duration |-> 100,
     life |-> [min |-> 300, max |-> 600],
     speed |-> [min |-> 100, max |-> 300],
     angle |-> [min |-> 0, max |-> 360],
     gravity |-> 200,
     rotation |-> [min |-> 0, max |-> 0], spread |-> [x |-> 0, y |-> 0],
     x |-> 100, y |-> 50]

\* ParticleEffects.sparks(x, y)
sparks ==
    [maxParticles |-> 30, burst |-> 20, emissionRate |-> 0, duration |-> 50,
     life |-> [min |-> 200, max |-> 500],
     speed |-> [min |-> 200, max |-> 400],
     angle |-> [min |-> 0, max |-> 360],
     gravity |-> 300,
     rotation |-> [min |-> 0, max |-> 0], spread |-> [x |-> 0, y |-> 0],
     x |-> 100, y |-> 50]

InitEffects == Constructed({explosion, sparks})

EffectDeltaTimes == {0, 10, 50}

\* The lifetime samples of a burst of n particles: one sample for the first
\* particle and one for all the others.
BurstSamples(n) ==
    {[i \in 1..n |-> IF i = 1 THEN r1 ELSE r2] :
         r1 \in LifeSamples, r2 \in LifeSamples}

\* emitter.start(), once.
EffectStart ==
    /\ starts = 0
    /\ \E rs \in BurstSamples(SpawnsOfStart) :
           LET S == start([State EXCEPT !.rnd = rs])
           IN /\ CommitEmitter(S)
              /\ last' = [op |-> "start", arg |-> S.spawns]
    /\ starts' = starts + 1
    /\ tickSum' = 0
    /\ updateEmits' = 0
    /\ hostEmits' = 0
    /\ drawn' = <<>>

\* emitter.update(deltaTime) by the host loop, after the start().
EffectUpdate(deltaTime) ==
    /\ starts = 1
    /\ tickSum + deltaTime <= MaxEffectTime
    /\ UpdateCall(deltaTime)

NextEffects ==
    \/ EffectStart
    \/ \E deltaTime \in EffectDeltaTimes : EffectUpdate(deltaTime)
    \/ Draw

EffectsSpec == InitEffects /\ [][NextEffects]_vars

\* C30: a prebuilt explosion or sparks emitter spawns exactly its burst count
\* of particles: start() spawns burst particles, and no update() after it,
\* however the time is cut into frames, calls emit() or spawns a particle.
C30_EffectsSpawnBurstOnly ==
    /\ [](starts = 1 =>
             /\ updateEmits = 0
             /\ last.op = "update" => last.arg = 0
             /\ Len(particles) <= cfg.burst
             /\ factoryCalls = cfg.maxParticles)
    /\ [][EffectStart =>
              /\ last'.arg = cfg.burst
              /\ Len(particles') = cfg.burst]_vars

\* The explosion has drained after frames of 10 and 50 ms that left nine
\* tenths of an emit interval in the accumulator; its 30 particles are live.
C30_Witness ==
    /\ cfg = explosion
    /\ starts = 1
    /\ last.op = "update"
    /\ ~emitterActive
    /\ elapsed >= 100
    /\ emissionAccumulator = 900
    /\ Len(particles) = 30

(***************************************************************************)
(* Claims about completion, recycled particles and the per-particle pass.  *)
(***************************************************************************)
\* C31: once isComplete() is true (the emitter is inactive and has no live
\* particle, which a never-started emitter is too), every stop(), draw() and
\* update() leaves it true; a step that ends it is a start() or an emit().
C31_CompleteIsTerminal ==
    [][isComplete(State) =>
           /\ (Stop \/ Draw \/ \E deltaTime \in DeltaTimes : Update(deltaTime))
                  => isComplete(State)'
           /\ ~isComplete(State)' => last'.op \in {"start", "emit"}]_vars

\* An emitter of duration 100 that was started, ran out and lost its last
\* particle has been updated again, and is still complete.
C31_Witness ==
    /\ last.op = "update"
    /\ starts = 1
    /\ hostEmits = 0
    /\ cfg.duration = 100
    /\ tickSum = 300
    /\ updateEmits > 0
    /\ isComplete(State)

\* The states emit() may give a particle under the current configuration:
\* each field that has a range is somewhere in its range.
SpawnedFromConfig(p) ==
    /\ p.active
    /\ p.life = 0
    /\ p.rotation = 0
    /\ p.ax = 0
    /\ p.ay = cfg.gravity
    /\ \E r \in Samples :
           p.x = cfg.x * 1000000 + (r - 1) * cfg.spread.x * 500000
    /\ \E r \in Samples :
           p.y = cfg.y * 1000000 + (r - 1) * cfg.spread.y * 500000
    /\ \E ra, rs \in Samples :
           LET angle == random(cfg.angle.min, cfg.angle.max, ra)
               speed == random(cfg.speed.min, cfg.speed.max, rs)
           IN /\ p.vx = cosDeg(angle) * speed * 1000
              /\ p.vy = sinDeg(angle) * speed * 1000
    /\ \E r \in Samples : p.maxLife = random(life.min, life.max, r)
    /\ \E r \in Samples :
           p.rotationSpeed = random(cfg.rotation.min, cfg.rotation.max, r)

\* C32: every particle that an emit() of the host or of start() pushes has
\* life 0, rotation 0 and ax 0 and all its other fields from the current
\* configuration, whatever the instance held when it was released.
C32_RespawnedParticleIsFresh ==
    [][(Emit \/ Start) =>
           \A i \in (Len(particles) + 1)..Len(particles') :
               SpawnedFromConfig(heap'[particles'[i]])]_vars

\* The only instance of an emitter was spawned by start(), aged (its
\* rotation and its vertical velocity grew) or expired during 100 ms of
\* updates, was released, and has been spawned again by emit().
C32_Witness ==
    /\ maxParticles = 1
    /\ cfg.burst > 0
    /\ starts = 1
    /\ tickSum = 100
    /\ last = [op |-> "emit", arg |-> 1]
    /\ Len(particles) = 1
    /\ heap[particles[1]].rotation = 0
    /\ heap[particles[1]].life = 0

\* C33: in update(deltaTime), each particle that is live when the call
\* begins is aged once: if its life stays below maxLife it is still live, in
\* the same order, with its life advanced by exactly deltaTime, and otherwise
\* it has left the list; the particles the call added follow the survivors.
C33_EachParticleUpdatedOnce ==
    [][\A deltaTime \in DeltaTimes :
           Update(deltaTime) =>
               LET survives(p) == heap[p].life + deltaTime < heap[p].maxLife
                   kept == SelectSeq(particles, survives)
               IN /\ Len(kept) <= Len(particles')
                  /\ SubSeq(particles', 1, Len(kept)) = kept
                  /\ \A p \in Range(kept) :
                         heap'[p].life = heap[p].life + deltaTime
                  /\ \A p \in Range(particles) \ Range(kept) :
                         /\ p \notin Range(particles')
                         /\ p \in Range(pool')
                         /\ heap'[p].life = 0]_vars

\* start() spawned two particles, 2 then 1; an update(50) that spawned
\* nothing removed particle 2, the first of the list, at its maxLife of 50
\* and aged particle 1, of maxLife 75, which moved to the front.
C33_Witness ==
    /\ maxParticles = 2
    /\ cfg.burst = 3
    /\ starts = 1
    /\ hostEmits = 0
    /\ tickSum = 50
    /\ last = [op |-> "update", arg |-> 0]
    /\ resetCalls = 1
    /\ particles = <<1>>
    /\ pool = <<2>>
    /\ heap[1].life = 50

\* C34: when update(deltaTime) returns, each particle it spawned that is
\* still live has life = deltaTime < maxLife, and each particle it spawned
\* with maxLife <= deltaTime has been released in the same call (the resets
\* of the call are those of the old particles that expired plus those of the
\* spawned particles that are not live), so that no draw() renders it.
C34_SpawnedParticlesAgeInSameCall ==
    [][\A deltaTime \in DeltaTimes :
           Update(deltaTime) =>
               LET new == Range(particles') \ Range(particles)
                   old == Range(particles') \cap Range(particles)
               IN /\ \A p \in new : /\ heap'[p].life = deltaTime
                                    /\ deltaTime < heap'[p].maxLife
                  /\ Cardinality(new) <= last'.arg
                  /\ resetCalls' = (Len(particles) - Cardinality(old))
                                   + (last'.arg - Cardinality(new))
                  /\ deltaTime >= life.max => new = {}
                  /\ drawn' = <<>>]_vars

\* An emitter without burst was started and has had no live particle when
\* an update() began (with one there would be two resets or a survivor);
\* the update() spawned one particle and released it before it returned.
C34_Witness ==
    /\ cfg.burst = 0
    /\ starts = 1
    /\ hostEmits = 0
    /\ last = [op |-> "update", arg |-> 1]
    /\ resetCalls = 1
    /\ particles = <<>>

(***************************************************************************)
(* Particles that live through many frames: an emitter that runs for 100   *)
(* ms, started once and then ticked with frames of different lengths.      *)
(***************************************************************************)
MotionConfigs ==
    [maxParticles : {2}, emissionRate : {30}, burst : {1}, duration : {100},
     life : {[min |-> 150, max |-> 250]},
     gravity : GravityConfigs, speed : SpeedConfigs, angle : AngleConfigs,
     rotation : RotationConfigs, spread : SpreadConfigs,
     x : XConfigs, y : YConfigs]

InitMotion == Constructed(MotionConfigs)

MotionSpec == InitMotion /\ [][NextEffects]_vars

\* C35: an update(deltaTime) gives each particle that stays live the velocity
\* v + a * deltaTime / 1000, then the position p + (new v) * deltaTime / 1000
\* and the rotation r + rotationSpeed * deltaTime / 1000; every live particle
\* has ax = 0 and ay = gravity, and so the vx of its spawn: its x is the x of
\* its spawn plus vx * life / 1000, and its vy is gravity * life / 1000.
C35_VelocityThenPosition ==
    /\ [][\A deltaTime \in EffectDeltaTimes :
              EffectUpdate(deltaTime) =>
                  \A p \in Range(particles) \cap Range(particles') :
                      LET o == heap[p]
                          n == heap'[p]
                      IN /\ n.vx = o.vx + o.ax * deltaTime
                         /\ n.vy = o.vy + o.ay * deltaTime
                         /\ n.x = o.x + n.vx * deltaTime
                         /\ n.y = o.y + n.vy * deltaTime
                         /\ n.rotation = o.rotation + o.rotationSpeed * deltaTime
                         /\ n.vx = o.vx]_vars
    /\ [](\A p \in Range(particles) :
              /\ heap[p].ax = 0
              /\ heap[p].ay = cfg.gravity
              /\ heap[p].vx = cfg.speed.min * 1000
              /\ heap[p].x = cfg.x * 1000000 + heap[p].vx * heap[p].life
              /\ heap[p].vy = cfg.gravity * heap[p].life)

\* A particle has lived 110 ms in frames of different lengths: it has
\* fallen, turned by 0.22 and moved 11 px to the right of the emitter.
C35_Witness ==
    /\ last.op = "update"
    /\ \E p \in Range(particles) :
           /\ heap[p].life = 110
           /\ heap[p].y > cfg.y * 1000000
           /\ heap[p].vy = 22000
           /\ heap[p].rotation = 220
           /\ heap[p].x = cfg.x * 1000000 + 11000000

(***************************************************************************)
(* Two emitters built from one configuration whose ranges all have length  *)
(* zero, driven by one sequence of calls: each call is made on emitter 1   *)
(* and then on emitter 2, and Math.random() returns to each emitter a      *)
(* stream of its own.                                                      *)
(***************************************************************************)
\* In PairSpec, update() is not called once the time since start() would
\* pass this.
MaxPairTime == 150
\* In PairSpec, start() is called at most this often.
MaxPairStarts == 2

PairConfigs ==
    [maxParticles : {1, 2}, emissionRate : {30}, burst : {0, 3},
     duration : {100}, life : {[min |-> 75, max |-> 75]},
     gravity : GravityConfigs, speed : SpeedConfigs, angle : AngleConfigs,
     rotation : RotationConfigs, spread : SpreadConfigs,
     x : XConfigs, y : YConfigs]

PairDeltaTimes == {0, 20, 50}

InitPair == ConstructedTwo(PairConfigs)

\* What Math.random() may return during one emit(): here all six calls
\* return the same sample.
PairSamples ==
    {[spreadX |-> r, spreadY |-> r, angle |-> r, speed |-> r, life |-> r,
      rotation |-> r] : r \in Samples}

\* The state a call made on both emitters leaves: A is what it left of
\* emitter 1 and B, computed on A's heap, what it left of emitter 2.
CommitPair(A, B, n, t) ==
    /\ heap' = B.heap
    /\ factoryCalls' = B.factoryCalls
    /\ resetCalls' = A.resetCalls + B.resetCalls
    /\ pools' = [pools EXCEPT ![emitters[1].pool] =
                                  [pool |-> A.pool, active |-> A.active],
                              ![emitters[2].pool] =
                                  [pool |-> B.pool, active |-> B.active]]
    /\ emitters' = [emitters EXCEPT
                       ![1] = [@ EXCEPT !.particles = A.particles,
                                        !.emissionAccumulator = A.emissionAccumulator,
                                        !.elapsed = A.elapsed,
                                        !.active = A.emitterActive,
                                        !.starts = n,
                                        !.tickSum = t],
                       ![2] = [@ EXCEPT !.particles = B.particles,
                                        !.emissionAccumulator = B.emissionAccumulator,
                                        !.elapsed = B.elapsed,
                                        !.active = B.emitterActive,
                                        !.starts = n,
                                        !.tickSum = t]]
    /\ UNCHANGED <<pool, active, kind, initialSize, configVars, emitterVars,
                   emptyAcquires, held, cleared, released, dropped,
                   tickSum, updateEmits, starts, drawn>>

\* Emitter 2 as its methods see it once a call on emitter 1 has left A.
SecondAfter(A) ==
    [StateOf(2) EXCEPT !.heap = A.heap, !.factoryCalls = A.factoryCalls]

\* start() on both emitters; last.arg tells how many particles the call
\* spawned in emitter 1 and whether Math.random() returned the same to both.
PairStart ==
    /\ emitters[1].starts < MaxPairStarts
    /\ \E r1 \in [1..TwoSpawnsOfStart(1) -> PairSamples],
          r2 \in [1..TwoSpawnsOfStart(2) -> PairSamples] :
           LET A == start([StateOf(1) EXCEPT !.rnd = r1])
               B == start([SecondAfter(A) EXCEPT !.rnd = r2])
           IN /\ CommitPair(A, B, emitters[1].starts + 1, 0)
              /\ last' = [op |-> "start",
                          arg |-> [spawns |-> A.spawns, same |-> r1 = r2]]
    /\ hostEmits' = 0

\* stop() on both emitters
PairStop ==
    /\ LET A == stop(StateOf(1))
           B == stop(SecondAfter(A))
       IN CommitPair(A, B, emitters[1].starts, emitters[1].tickSum)
    /\ last' = [op |-> "stop", arg |-> [spawns |-> 0, same |-> TRUE]]
    /\ UNCHANGED hostEmits

\* emit() on both emitters
PairEmit ==
    /\ hostEmits < MaxHostEmits
    /\ \E r1 \in [1..Min(1, Room(StateOf(1))) -> PairSamples],
          r2 \in [1..Min(1, Room(StateOf(2))) -> PairSamples] :
           LET A == emit([StateOf(1) EXCEPT !.rnd = r1])
               B == emit([SecondAfter(A) EXCEPT !.rnd = r2])
           IN /\ CommitPair(A, B, emitters[1].starts, emitters[1].tickSum)
              /\ last' = [op |-> "emit",
                          arg |-> [spawns |-> A.spawns, same |-> r1 = r2]]
    /\ hostEmits' = hostEmits + 1

\* update(deltaTime) on both emitters
PairUpdate(deltaTime) ==
    /\ emitters[1].tickSum + deltaTime <= MaxPairTime
    /\ \E r1 \in [1..TwoSpawnsOfUpdate(1, deltaTime) -> PairSamples],
          r2 \in [1..TwoSpawnsOfUpdate(2, deltaTime) -> PairSamples] :
           LET A == update([StateOf(1) EXCEPT !.rnd = r1], deltaTime)
               B == update([SecondAfter(A) EXCEPT !.rnd = r2], deltaTime)
           IN /\ CommitPair(A, B, emitters[1].starts,
                            emitters[1].tickSum + deltaTime)
              /\ last' = [op |-> "update",
                          arg |-> [spawns |-> A.spawns, same |-> r1 = r2]]
    /\ UNCHANGED hostEmits

NextPair ==
    \/ PairStart
    \/ PairStop
    \/ PairEmit
    \/ \E deltaTime \in PairDeltaTimes : PairUpdate(deltaTime)

PairSpec == InitPair /\ [][NextPair]_vars

\* The state of emitter e that a caller can observe: its fields and, in the
\* order of the live list, the fields of its live particles.
Observable(e) ==
    [active |-> emitters[e].active,
     elapsed |-> emitters[e].elapsed,
     emissionAccumulator |-> emitters[e].emissionAccumulator,
     particles |-> [i \in 1..Len(emitters[e].particles) |->
                        heap[emitters[e].particles[i]]],
     available |-> Len(pools[emitters[e].pool].pool)]

\* C36: with every range of the configuration of length zero and spread
\* (0, 0), two emitters built from the same configuration and given the same
\* calls are in the same state after every call, whatever Math.random()
\* returns to each: the same flags and counters, the same number of live
\* particles, and particle by particle the same life, maxLife, position and
\* velocity.
C36_ZeroRangesDeterministic ==
    /\ cfg.life.min = cfg.life.max
    /\ cfg.speed.min = cfg.speed.max
    /\ cfg.angle.min = cfg.angle.max
    /\ cfg.rotation.min = cfg.rotation.max
    /\ cfg.spread = [x |-> 0, y |-> 0]
    /\ Observable(1) = Observable(2)

\* Both emitters were updated with a call that spawned a particle in each,
\* Math.random() returning 0 to one emitter and 1/2 to the other, and both
\* have two live particles, the older of which has fallen.
C36_Witness ==
    /\ last.op = "update"
    /\ last.arg.spawns > 0
    /\ ~last.arg.same
    /\ Len(emitters[1].particles) = 2
    /\ Len(emitters[2].particles) = 2
    /\ heap[emitters[1].particles[1]].vy > 0
    /\ heap[emitters[2].particles[2]].life > 0

(***************************************************************************)
(* Colour interpolation.  A string is the sequence of its characters; the  *)
(* interpolation parameter t is n / ProgressSteps, and a number that       *)
(* _lerp returns is kept multiplied by ProgressSteps.                      *)
(***************************************************************************)
\* t takes the values 0, 1 / ProgressSteps, ..., 1.
ProgressSteps == 4

Digits == {"0", "1", "2", "3", "4", "5", "6", "7", "8", "9"}
LowerHex == {"a", "b", "c", "d", "e", "f"}
UpperHex == {"A", "B", "C", "D", "E", "F"}

\* The characters the class [a-f\d] matches under the flag i.
HexChars == Digits \cup LowerHex \cup UpperHex

\* The value parseInt(c, 16) gives the hexadecimal digit c.
hexValue(c) ==
    CASE c = "0" -> 0 [] c = "1" -> 1 [] c = "2" -> 2 [] c = "3" -> 3
      [] c = "4" -> 4 [] c = "5" -> 5 [] c = "6" -> 6 [] c = "7" -> 7
      [] c = "8" -> 8 [] c = "9" -> 9
      [] c \in {"a", "A"} -> 10 [] c \in {"b", "B"} -> 11
      [] c \in {"c", "C"} -> 12 [] c \in {"d", "D"} -> 13
      [] c \in {"e", "E"} -> 14 [] c \in {"f", "F"} -> 15

\* parseInt(s, 16) of a string s of two hexadecimal digits.
parseInt16(s) == 16 * hexValue(s[1]) + hexValue(s[2])

White == [r |-> 255, g |-> 255, b |-> 255]

\* _hexToRgb() whose pattern has no $: what follows the sixth digit is
\* ignored.
hexToRgbUnanchored(hex) ==
    LET digits == IF hex # <<>> /\ Head(hex) = "#" THEN Tail(hex) ELSE hex
    IN IF Len(digits) >= 6 /\ \A i \in 1..6 : digits[i] \in HexChars
       THEN [r |-> parseInt16(SubSeq(digits, 1, 2)),
             g |-> parseInt16(SubSeq(digits, 3, 4)),
             b |-> parseInt16(SubSeq(digits, 5, 6))]
       ELSE White

\* _hexToRgb(hex): /^#?([a-f\d]{2})([a-f\d]{2})([a-f\d]{2})$/i.exec(hex),
\* the three groups parsed, or white when there is no match.
hexToRgb(hex) ==
    LET digits == IF hex # <<>> /\ Head(hex) = "#" THEN Tail(hex) ELSE hex
    IN IF Len(digits) = 6 /\ \A i \in 1..6 : digits[i] \in HexChars
       THEN [r |-> parseInt16(SubSeq(digits, 1, 2)),
             g |-> parseInt16(SubSeq(digits, 3, 4)),
             b |-> parseInt16(SubSeq(digits, 5, 6))]
       ELSE White

\* _lerp(a, b, t) with t = n / ProgressSteps, times ProgressSteps.
lerp(a, b, n) == a * ProgressSteps + (b - a) * n

\* Math.round(m / ProgressSteps): the nearest integer, halves going up.
MathRound(m) == (2 * m + ProgressSteps) \div (2 * ProgressSteps)

\* _lerpColor(colorA, colorB, t) with t = n / ProgressSteps: the components
\* r, g, b of the string `rgb(r,g,b)` it returns.
lerpColor(colorA, colorB, n) ==
    LET a == hexToRgb(colorA)
        b == hexToRgb(colorB)
    IN [r |-> MathRound(lerp(a.r, b.r, n)),
        g |-> MathRound(lerp(a.g, b.g, n)),
        b |-> MathRound(lerp(a.b, b.b, n))]

\* Colour strings: two-character pieces put together.
RedPieces == {<<"0", "0">>, <<"f", "F">>, <<"8", "1">>, <<"0", "a">>}
GreenPieces == {<<"0", "0">>, <<"C", "4">>}
BluePieces == {<<"7", "e">>}
BadPieces == {<<"g", "0">>, <<"0", "G">>, <<"#", "f">>, <<"f", " ">>}

SixDigits == {p \o q \o s : p \in RedPieces, q \in GreenPieces, s \in BluePieces}

\* Six hexadecimal digits with or without a leading '#'.
WellFormedColours == SixDigits \cup {<<"#">> \o d : d \in SixDigits}

\* Strings that are not: empty, '#' alone, three, four, five, seven or eight
\* digits, a character that is no hexadecimal digit, '#' twice, a name.
MalformedColours ==
    {<<>>, <<"#">>, <<"#", "0", "8", "f">>, <<"1", "2", "3", "4">>,
     <<"#", "1", "2", "3", "4", "5">>, <<"r", "e", "d">>}
        \cup {d \o <<"0">> : d \in {<<"0", "a", "C", "4", "7", "e">>,
                                    <<"#", "0", "a", "C", "4", "7", "e">>}}
        \cup {<<"#", "0", "0">> \o p \o <<"0", "0">> : p \in BadPieces}
        \cup {<<"1", "2", "3", "4", "5", "6", "7", "8">>,
              <<"#", "#", "0", "0", "0", "0", "0", "0">>,
              <<" ", "0", "0", "0", "0", "0", "0">>}

Colours == WellFormedColours \cup MalformedColours

ColourConfigs ==
    [maxParticles : {1}, emissionRate : {30}, burst : {0}, duration : {100},
     life : LifeConfigs,
     gravity : GravityConfigs, speed : SpeedConfigs, angle : AngleConfigs,
     rotation : RotationConfigs, spread : SpreadConfigs,
     x : XConfigs, y : YConfigs,
     color : [start : Colours, end : Colours]]

InitColour == Constructed(ColourConfigs)

\* Everything but last.
allButLast ==
    <<poolVars, configVars, emitterVars, hostVars, factoryCalls, emptyAcquires,
      resetCalls, held, cleared, released, dropped, tickSum, updateEmits,
      hostEmits, starts, drawn>>

\* this._hexToRgb(hex) on one of the two colours of the configuration
HexToRgb(hex) ==
    /\ hex \in {cfg.color.start, cfg.color.end}
    /\ last' = [op |-> "hexToRgb", arg |-> [hex |-> hex, ret |-> hexToRgb(hex)]]
    /\ UNCHANGED allButLast

\* this._lerpColor(particle.color, particle.colorEnd, n / ProgressSteps)
LerpColor(n) ==
    /\ last' = [op |-> "lerpColor",
                arg |-> [t |-> n,
                         ret |-> lerpColor(cfg.color.start, cfg.color.end, n)]]
    /\ UNCHANGED allButLast

NextColour ==
    \/ \E hex \in Colours : HexToRgb(hex)
    \/ \E n \in 0..ProgressSteps : LerpColor(n)

ColourSpec == InitColour /\ [][NextColour]_vars

\* s is six hexadecimal digits with an optional leading '#'.
SixHexDigits(s) ==
    \/ Len(s) = 6 /\ \A i \in 1..6 : s[i] \in HexChars
    \/ Len(s) = 7 /\ s[1] = "#" /\ \A i \in 2..7 : s[i] \in HexChars

Between(x, a, b) == (a <= x /\ x <= b) \/ (b <= x /\ x <= a)

\* C37: _hexToRgb gives (255, 255, 255) for every string that is not six
\* hexadecimal digits with an optional leading '#', and for all colour
\* strings a and b, malformed ones included, and t in [0, 1] each component
\* of _lerpColor(a, b, t) lies between the components _hexToRgb gives a and
\* b, is a's at t = 0 and b's at t = 1.
C37_ColourInterpolationTotal ==
    /\ last.op = "hexToRgb" =>
           (~SixHexDigits(last.arg.hex) => last.arg.ret = White)
    /\ last.op = "lerpColor" =>
           LET a == hexToRgb(cfg.color.start)
               b == hexToRgb(cfg.color.end)
               c == last.arg.ret
           IN /\ Between(c.r, a.r, b.r)
              /\ Between(c.g, a.g, b.g)
              /\ Between(c.b, a.b, b.b)
              /\ last.arg.t = 0 => c = a
              /\ last.arg.t = ProgressSteps => c = b

\* _lerpColor was called half way between a colour of seven digits, which
\* reads as white, and #81C47e: it returned rgb(192,226,191).
C37_Witness ==
    /\ last.op = "lerpColor"
    /\ last.arg.t * 2 = ProgressSteps
    /\ cfg.color.start = <<"#", "0", "a", "C", "4", "7", "e", "0">>
    /\ cfg.color.end = <<"#", "8", "1", "C", "4", "7", "e">>
    /\ last.arg.ret = [r |-> 192, g |-> 226, b |-> 191]

============================================================================
